---- MODULE Spec2Model ----
(***************************************************************************)
(* The streaming reveal engine of the Streamdown + MDC demo: the hook      *)
(* useStreamingText (src/unnamed/part_000, lines 139-233) as the App       *)
(* drives it.                                                              *)
(*                                                                         *)
(* React state (useState) is held in the variables streamedText,           *)
(* isStreaming, isPaused and mdcContent; the refs (useRef) in indexRef and *)
(* intervalRef.  The values the last render saw, which the callbacks of    *)
(* that render close over (fullText, isPaused), are kept in view.          *)
(* A click or input handler runs to its end and React commits its state    *)
(* updates before the next event is dispatched, so a handler action ends   *)
(* with the commit (Flush).  The updates of a setInterval callback are     *)
(* committed by a render scheduled later (Render), so another callback or  *)
(* a handler may run before it.                                            *)
(*                                                                         *)
(* The operations of the hook are taken in every state, whether or not the *)
(* App shows their button in it.  stop() is returned by the hook but the   *)
(* App does not take it (lines 240-249), so it is no step of its own.  The *)
(* unmount cleanup (lines 211-217) ends the engine and is left out.        *)
(* SpecUI takes them only while the last render shows their button.        *)
(*                                                                         *)
(* The App shows the revealed text through MDCRenderer                     *)
(* (src/src/components/MDCRenderer.tsx) on the MDC tab while the text is   *)
(* not empty.  The renderer parses its content in an effect and keeps the  *)
(* outcome in parsed and error.  parseMDC is asynchronous and rests on a   *)
(* library: when a call settles is not in the source, so the calls in      *)
(* flight (pending) settle in any order.  An AST is held as the text it    *)
(* was parsed from.                                                        *)
(*                                                                         *)
(* The tree walk renderNode is a function of the AST, the registry and a   *)
(* key.  It is applied (SpecWalk) to every drawn node and registry, and to *)
(* the trees of the growing prefixes of a document.                        *)
(***************************************************************************)
EXTENDS Integers, Sequences, FiniteSets, TLC

\* ---------------------------------------------------------------- bounds
MaxLen == 3
MaxTimers == 2
RunLen == 10
\* children of one AST node; characters of a walked document
MaxKids == 2
WalkLen == 2

\* ------------------------------------------------------------- constants
\* intervalRef.current = null
NoTimer == 0
\* useState<...| null>(null): a value that is no text
Null == <<"null">>
\* Math.floor(Math.random() * 3) + 1
ChunkSizes == 1..3

Chars == {"a", "b"}
TimerIds == 1..MaxTimers

RECURSIVE SeqsUpTo(_)
SeqsUpTo(n) ==
  IF n = 0 THEN {<<>>}
  ELSE LET S == SeqsUpTo(n - 1)
       IN S \cup {Append(s, c) : s \in {t \in S : Len(t) = n - 1}, c \in Chars}

\* the documents the textarea can hold
Docs == SeqsUpTo(MaxLen)
\* the documents of the tick-count scenario: one per length
RunDocs == {[i \in 1..n |-> "a"] : n \in 0..RunLen}

Min(a, b) == IF a < b THEN a ELSE b
IsPrefix(p, t) == Len(p) <= Len(t) /\ p = SubSeq(t, 1, Len(p))
CeilDiv(a, b) == (a + b - 1) \div b

VARIABLES
  mdcContent,    \* App state: the source document
  streamedText,  \* hook state: the revealed text
  isStreaming,   \* hook state
  isPaused,      \* hook state
  indexRef,      \* indexRef.current: the revealed length
  intervalRef,   \* intervalRef.current: a timer id or NoTimer
  timers,        \* the live intervals: id -> the fullText its callback closed over
  view,          \* what the last render saw
  activeTab,     \* App state: "mdc" or "streamdown"
  parsed,        \* MDCRenderer state: the text whose AST is held, or Null
  error,         \* MDCRenderer state: the text whose parse failed, or Null
  pending,       \* the contents whose parseMDC call has not settled
  ticks,         \* history: interval callbacks run since the last start()
  last,          \* history: the last step, the one before it, and the
                 \* engine state the last step was taken in
  body,          \* the tree walk: the AST handed to renderNode (parsed.body)
  components,    \* the tree walk: the registry (MDCRenderer's components)
  element,       \* the tree walk: what renderNode returned
  prefix         \* the tree walk: the revealed text body was parsed from

walkVars == <<body, components, element, prefix>>

vars == <<mdcContent, streamedText, isStreaming, isPaused, indexRef,
          intervalRef, timers, view, activeTab, parsed, error, pending,
          ticks, last, walkVars>>

\* ------------------------------------------------------------- the hook

\* fullText.slice(0, n)
Slice(text, n) == SubSeq(text, 1, Min(n, Len(text)))

\* clearInterval(intervalRef.current) under `if (intervalRef.current)`
ClearInterval(t, ref) ==
  IF ref # NoTimer THEN [j \in (DOMAIN t) \ {ref} |-> t[j]] ELSE t

\* the id setInterval returns: one not in use
FreshId(t) ==
  CHOOSE i \in TimerIds \ DOMAIN t : \A j \in TimerIds \ DOMAIN t : i <= j

\* setInterval(callback closing over text, speed)
SetInterval(t, id, text) ==
  [j \in (DOMAIN t) \cup {id} |-> IF j = id THEN text ELSE t[j]]

\* progress, as a render computes it (whole percent)
progress ==
  IF Len(view.fullText) > 0 THEN (indexRef * 100) \div Len(view.fullText) ELSE 0

\* stop() without the clearInterval: the handle is dropped, the interval lives
stop_KeepsTimer ==
  /\ timers' = timers
  /\ intervalRef' = NoTimer
  /\ isStreaming' = FALSE
  /\ isPaused' = FALSE

\* stop()
stop ==
  /\ timers' = ClearInterval(timers, intervalRef)
  /\ intervalRef' = NoTimer
  /\ isStreaming' = FALSE
  /\ isPaused' = FALSE

\* start() without its stop(): the interval of the run before is not cleared
start_KeepsOldTimer ==
  /\ TimerIds \ DOMAIN timers # {}
  /\ streamedText' = <<>>
  /\ indexRef' = 0
  /\ isStreaming' = TRUE
  /\ isPaused' = FALSE
  /\ intervalRef' = FreshId(timers)
  /\ timers' = SetInterval(timers, FreshId(timers), view.fullText)
  /\ ticks' = 0
  /\ UNCHANGED mdcContent

\* start()
start ==
  LET cleared == ClearInterval(timers, intervalRef)
  IN /\ TimerIds \ DOMAIN cleared # {}
     /\ streamedText' = <<>>
     /\ indexRef' = 0
     /\ isStreaming' = TRUE
     /\ isPaused' = FALSE
     /\ intervalRef' = FreshId(cleared)
     /\ timers' = SetInterval(cleared, FreshId(cleared), view.fullText)
     /\ ticks' = 0
     /\ UNCHANGED mdcContent

\* pause() without the clearInterval
pause_KeepsTimer ==
  /\ isPaused' = TRUE
  /\ UNCHANGED <<mdcContent, streamedText, isStreaming, indexRef, ticks,
                 intervalRef, timers>>

\* pause() as a toggle: setIsPaused(p => !p)
pause_Toggles ==
  /\ timers' = ClearInterval(timers, intervalRef)
  /\ intervalRef' = NoTimer
  /\ isPaused' = ~isPaused
  /\ UNCHANGED <<mdcContent, streamedText, isStreaming, indexRef, ticks>>

\* pause()
pause ==
  /\ timers' = ClearInterval(timers, intervalRef)
  /\ intervalRef' = NoTimer
  /\ isPaused' = TRUE
  /\ UNCHANGED <<mdcContent, streamedText, isStreaming, indexRef, ticks>>

\* resume()
resume ==
  IF ~view.isPaused
  THEN UNCHANGED <<mdcContent, streamedText, isStreaming, isPaused, indexRef,
                   intervalRef, timers, ticks>>
  ELSE /\ TimerIds \ DOMAIN timers # {}
       /\ isPaused' = FALSE
       /\ intervalRef' = FreshId(timers)
       /\ timers' = SetInterval(timers, FreshId(timers), view.fullText)
       /\ UNCHANGED <<mdcContent, streamedText, isStreaming, indexRef, ticks>>

\* reset()
reset ==
  /\ stop
  /\ streamedText' = <<>>
  /\ indexRef' = 0
  /\ UNCHANGED <<mdcContent, ticks>>

\* complete() without indexRef.current = fullText.length
complete_KeepsIndex ==
  /\ stop
  /\ streamedText' = view.fullText
  /\ UNCHANGED <<indexRef, mdcContent, ticks>>

\* complete()
complete ==
  /\ stop
  /\ streamedText' = view.fullText
  /\ indexRef' = Len(view.fullText)
  /\ UNCHANGED <<mdcContent, ticks>>

\* the interval callback without the Math.min clamp
IntervalCallback_NoClamp(id) ==
  LET fullText == timers[id]
      cap == Len(fullText) + 2
  IN /\ ticks' = IF ticks < cap THEN ticks + 1 ELSE ticks
     /\ IF indexRef < Len(fullText)
        THEN \E chunkSize \in ChunkSizes :
               LET nextIndex == indexRef + chunkSize
               IN /\ streamedText' = Slice(fullText, nextIndex)
                  /\ indexRef' = nextIndex
                  /\ UNCHANGED <<isStreaming, isPaused, intervalRef, timers>>
        ELSE /\ stop
             /\ UNCHANGED <<streamedText, indexRef>>
     /\ UNCHANGED mdcContent

\* the interval callback without its else branch: it never calls stop()
IntervalCallback_NeverStops(id) ==
  LET fullText == timers[id]
      cap == Len(fullText) + 2
  IN /\ ticks' = IF ticks < cap THEN ticks + 1 ELSE ticks
     /\ IF indexRef < Len(fullText)
        THEN \E chunkSize \in ChunkSizes :
               LET nextIndex == Min(indexRef + chunkSize, Len(fullText))
               IN /\ streamedText' = Slice(fullText, nextIndex)
                  /\ indexRef' = nextIndex
                  /\ UNCHANGED <<isStreaming, isPaused, intervalRef, timers>>
        ELSE UNCHANGED <<streamedText, indexRef, isStreaming, isPaused,
                         intervalRef, timers>>
     /\ UNCHANGED mdcContent

\* the interval callback of start() and of resume()
IntervalCallback(id) ==
  LET fullText == timers[id]
      cap == Len(fullText) + 2
  IN /\ ticks' = IF ticks < cap THEN ticks + 1 ELSE ticks
     /\ IF indexRef < Len(fullText)
        THEN \E chunkSize \in ChunkSizes :
               LET nextIndex == Min(indexRef + chunkSize, Len(fullText))
               IN /\ streamedText' = Slice(fullText, nextIndex)
                  /\ indexRef' = nextIndex
                  /\ UNCHANGED <<isStreaming, isPaused, intervalRef, timers>>
        ELSE /\ stop
             /\ UNCHANGED <<streamedText, indexRef>>
     /\ UNCHANGED mdcContent

\* ------------------------------------------------------------ the steps

\* what a render sees
Rendered(doc, text, streaming, paused) ==
  [fullText |-> doc, streamedText |-> text, isStreaming |-> streaming,
   isPaused |-> paused]

\* ------------------------------------------------------- the renderer

Tabs == {"mdc", "streamdown"}

\* The parser is a library: which texts it rejects is not in the source.
\* A text is taken to be rejected when it ends in "b", so that the prefixes
\* of one document have both outcomes.
ParseFails(content) == Len(content) > 0 /\ content[Len(content)] = "b"

\* <MDCRenderer content={streamedText} /> is in the tree of a render
Shows(tab, text) == tab = "mdc" /\ text # <<>>

Mounted == Shows(activeTab, view.streamedText)

\* The renderer's part of a commit that puts text on the tab: unmounted, its
\* state is gone and its calls in flight settle into nothing; mounted, it
\* starts from null and parses; on a new content, the effect parses again.
RendererCommit(tab, text) ==
  IF ~Shows(tab, text)
  THEN parsed' = Null /\ error' = Null /\ pending' = {}
  ELSE IF ~Mounted
  THEN parsed' = Null /\ error' = Null /\ pending' = {text}
  ELSE IF text # view.streamedText
  THEN pending' = pending \cup {text} /\ UNCHANGED <<parsed, error>>
  ELSE UNCHANGED <<parsed, error, pending>>

\* a parseMDC call settles, whose catch forgets setParsed(null)
ParseSettles_KeepsTree(content) ==
  /\ pending' = pending \ {content}
  /\ IF ParseFails(content)
     THEN error' = content /\ parsed' = parsed
     ELSE parsed' = content /\ error' = Null

\* a parseMDC call settles: the then or the catch of the effect
ParseSettles(content) ==
  /\ pending' = pending \ {content}
  /\ IF ParseFails(content)
     THEN error' = content /\ parsed' = Null
     ELSE parsed' = content /\ error' = Null

\* what MDCRenderer returns
Display ==
  IF error # Null THEN "error"
  ELSE IF parsed = Null THEN "loading"
  ELSE "tree"

\* ---------------------------------------------------------- the tree walk
\* An MDCNode is a record of its type and of those optional fields that are
\* present.  Text is a sequence of characters, a name a string.  What
\* renderNode returns (a ReactNode) is a record with a kind: an element with
\* its type, key, props and children, a string, an array, null or undefined.
\* Raise stands for the TypeError of a property read on undefined; it
\* propagates through every enclosing expression.

Has(node, field) == field \in DOMAIN node

Undefined == [kind |-> "undefined"]
NullNode == [kind |-> "null"]
Raise == [kind |-> "raise"]
NotRendered == [kind |-> "none"]
StringNode(chars) == [kind |-> "string", value |-> chars]

ArrayNode(items) ==
  IF \E i \in DOMAIN items : items[i].kind = "raise" THEN Raise
  ELSE [kind |-> "array", items |-> items]

\* an element without a key attribute
NoKey == <<>>
\* {}: an object without properties
EmptyObject == <<>>
ClassName(names) == [className |-> names]

\* <type key={key} {...props}>{children}</type>
Element(type, key, props, children) ==
  IF children.kind = "raise" THEN Raise
  ELSE [kind |-> "element", type |-> type, key |-> key, props |-> props,
        children |-> children]

\* {node.value}
ValueOf(node) ==
  IF Has(node, "value") THEN StringNode(node.value) ELSE Undefined

ComponentTypes == {"containerComponent", "leafComponent", "textComponent"}

\* export const mdcComponents
mdcComponents ==
  [alert |-> "Alert", callout |-> "Callout", card |-> "Card",
   badge |-> "Badge"] @@ ("code-group" :> "CodeGroup")

\* the members every object literal inherits from Object.prototype whose
\* names a lower-cased name can equal
ObjectPrototype ==
  [constructor |-> "Object"] @@ ("__proto__" :> "Object.prototype")

\* customComponents?.[componentName]: a property read, own or inherited
GetComponent(customComponents, componentName) ==
  IF componentName \in DOMAIN customComponents
  THEN customComponents[componentName]
  ELSE IF componentName \in DOMAIN ObjectPrototype
  THEN ObjectPrototype[componentName]
  ELSE "undefined"

\* String.prototype.toLowerCase on the names of the model
ToLowerCase(name) ==
  CASE name = "Alert" -> "alert"
    [] name = "Card" -> "card"
    [] OTHER -> name

\* const sizes: Record<number, string>
sizes ==
  [depth \in 1..6 |->
     CASE depth = 1 -> "text-3xl font-bold mb-6"
       [] depth = 2 -> "text-2xl font-bold mb-4"
       [] depth = 3 -> "text-xl font-semibold mb-3"
       [] depth = 4 -> "text-lg font-semibold mb-2"
       [] depth = 5 -> "text-base font-semibold mb-2"
       [] depth = 6 -> "text-sm font-semibold mb-2"]

RECURSIVE renderNode(_, _, _)

\* `${key}` for every child: the index left out
ChildKey_NoIndex(key, i) == key

\* `${key}-${i}`
ChildKey(key, i) == key \o <<"-", ToString(i)>>

\* node.children.map((child, i) =>
\*   renderNode(child, customComponents, `${key}-${i}`))
MapChildren(node, customComponents, key) ==
  IF ~Has(node, "children") THEN Raise
  ELSE ArrayNode([i \in 1..Len(node.children) |->
                    renderNode(node.children[i], customComponents,
                               ChildKey(key, i - 1))])

\* node.children.map(...) where the source has node.children?.map(...)
OptMapChildren_Unguarded(node, customComponents, key) ==
  MapChildren(node, customComponents, key)

\* node.children?.map(...)
OptMapChildren(node, customComponents, key) ==
  IF Has(node, "children") THEN MapChildren(node, customComponents, key)
  ELSE Undefined

\* the fallback for a component the registry does not hold
Fallback(node, customComponents, key) ==
  Element("div", key,
          ClassName("border border-dashed border-zinc-600 p-2 my-2 rounded"),
          ArrayNode(<<
            Element("span", NoKey, ClassName("text-xs text-zinc-500"),
                    [kind |-> "label", text |-> "Unknown component: ",
                     name |-> IF Has(node, "name") THEN node.name
                              ELSE "undefined"]),
            Element("div", NoKey, EmptyObject,
                    OptMapChildren(node, customComponents, key))>>))

\* the heading branch
Heading(node, customComponents, key) ==
  LET depth == IF Has(node, "depth") /\ node.depth # 0 THEN node.depth ELSE 1
      className == IF depth \in DOMAIN sizes THEN sizes[depth]
                   ELSE "undefined"
      type == CASE depth = 1 -> "h1"
                [] depth = 2 -> "h2"
                [] depth = 3 -> "h3"
                [] depth = 4 -> "h4"
                [] depth = 5 -> "h5"
                [] OTHER -> "h6"
  IN Element(type, key, ClassName(className),
             OptMapChildren(node, customComponents, key))

\* a branch of the form <type key={key} className=...>{children?.map}</type>
Container(type, className, node, customComponents, key) ==
  Element(type, key, ClassName(className),
          OptMapChildren(node, customComponents, key))

\* function renderNode(node, customComponents, key): ReactNode
renderNode(node, customComponents, key) ==
  IF node.type = "text" THEN ValueOf(node)
  ELSE IF node.type \in ComponentTypes THEN
    LET componentName ==
          IF Has(node, "name") THEN ToLowerCase(node.name) ELSE ""
        Component == GetComponent(customComponents, componentName)
    IN IF Component # "undefined"
       THEN Element(Component, key,
                    IF Has(node, "attributes") THEN node.attributes
                    ELSE EmptyObject,
                    OptMapChildren(node, customComponents, key))
       ELSE Fallback(node, customComponents, key)
  ELSE IF node.type = "paragraph" THEN
    Container("p", "mb-4 leading-relaxed", node, customComponents, key)
  ELSE IF node.type = "heading" THEN Heading(node, customComponents, key)
  ELSE IF node.type = "code" THEN
    Element("pre", key, ClassName("bg-zinc-900 rounded-lg p-4 my-4"),
            Element("code", NoKey, ClassName("text-sm font-mono"),
                    ValueOf(node)))
  ELSE IF node.type = "inlineCode" THEN
    Element("code", key, ClassName("bg-zinc-800 font-mono"), ValueOf(node))
  ELSE IF node.type = "strong" THEN
    Container("strong", "font-bold", node, customComponents, key)
  ELSE IF node.type = "emphasis" THEN
    Container("em", "italic", node, customComponents, key)
  ELSE IF node.type = "link" THEN
    Element("a", key,
            [className |-> "text-blue-400 hover:underline",
             href |-> IF Has(node, "url") THEN node.url ELSE "undefined",
             target |-> "_blank", rel |-> "noopener noreferrer"],
            OptMapChildren(node, customComponents, key))
  ELSE IF node.type = "list" THEN
    LET ordered == Has(node, "ordered") /\ node.ordered
    IN Container(IF ordered THEN "ol" ELSE "ul",
                 IF ordered THEN "mb-4 pl-6 list-decimal"
                 ELSE "mb-4 pl-6 list-disc",
                 node, customComponents, key)
  ELSE IF node.type = "listItem" THEN
    Container("li", "mb-1", node, customComponents, key)
  ELSE IF node.type = "blockquote" THEN
    Container("blockquote", "border-l-4 pl-4 italic my-4", node,
              customComponents, key)
  ELSE IF node.type = "thematicBreak" THEN
    Element("hr", key, ClassName("border-zinc-700 my-6"), Undefined)
  ELSE IF Has(node, "children") THEN MapChildren(node, customComponents, key)
  ELSE NullNode

\* the key attributes of an output, in document order
RECURSIVE KeySeq(_)
RECURSIVE KeySeqOfItems(_)
KeySeqOfItems(items) ==
  IF items = <<>> THEN <<>>
  ELSE KeySeq(Head(items)) \o KeySeqOfItems(Tail(items))

KeySeq(result) ==
  IF result.kind = "element"
  THEN (IF result.key = NoKey THEN <<>> ELSE <<result.key>>)
       \o KeySeq(result.children)
  ELSE IF result.kind = "array" THEN KeySeqOfItems(result.items)
  ELSE <<>>

KeySet(result) == {KeySeq(result)[i] : i \in DOMAIN KeySeq(result)}

\* ------------------------------------------------- the walked documents
\* The node types of the walk's branches, and two it does not know.
NodeTypes ==
  ComponentTypes \cup
  {"text", "paragraph", "heading", "code", "inlineCode", "strong",
   "emphasis", "link", "list", "listItem", "blockquote", "thematicBreak",
   "root", "html"}

\* a field absent, or present with one of the values
Opt(field, values) == {<<>>} \cup {field :> v : v \in values}

NameValues(type) ==
  IF type \in ComponentTypes THEN {"Alert", "widget", "constructor"}
  ELSE {"widget"}
DepthValues(type) == IF type = "heading" THEN {-1, 0, 3, 7} ELSE {3}
OrderedValues(type) == IF type = "list" THEN {TRUE, FALSE} ELSE {TRUE}

\* the children a drawn node can have
KidText == [type |-> "text", value |-> <<"a">>]
KidLeaf == [type |-> "leafComponent", name |-> "widget"]
KidGroup ==
  [type |-> "html", children |-> <<[type |-> "thematicBreak"], KidText>>]
Kids == {KidText, KidLeaf, KidGroup}
KidSeqs == UNION {[1..k -> Kids] : k \in 0..MaxKids}

NodesOf(type) ==
  {("type" :> type) @@ n @@ a @@ d @@ v @@ u @@ o @@ c :
     n \in Opt("name", NameValues(type)),
     a \in Opt("attributes", {[type |-> "warning"]}),
     d \in Opt("depth", DepthValues(type)),
     v \in Opt("value", {<<"a">>}),
     u \in Opt("url", {"u"}),
     o \in Opt("ordered", OrderedValues(type)),
     c \in Opt("children", KidSeqs)}

Asts == UNION {NodesOf(type) : type \in NodeTypes}
Registries == {mdcComponents, EmptyObject}

WalkChars == {"+", "a"}
WalkDocs == UNION {[1..k -> WalkChars] : k \in 0..WalkLen}

\* processor.parse(content) on the walked documents: a bullet marker alone
\* on its line opens a list with one empty item; any other text is one
\* paragraph of one text node
parse(content) ==
  [type |-> "root",
   children |->
     IF content = <<>> THEN <<>>
     ELSE IF content = <<"+">>
     THEN <<[type |-> "list", ordered |-> FALSE,
             children |-> <<[type |-> "listItem", children |-> <<>>]>>]>>
     ELSE <<[type |-> "paragraph",
             children |-> <<[type |-> "text", value |-> content]>>]>>]

\* renderNode(parsed.body, components, 'root') on a tree drawn at the start
RenderBody ==
  /\ element = NotRendered
  /\ element' = renderNode(body, components, <<"root">>)
  /\ UNCHANGED <<body, components, prefix>>
  /\ UNCHANGED <<mdcContent, streamedText, isStreaming, isPaused, indexRef,
                 intervalRef, timers, view, activeTab, parsed, error,
                 pending, ticks, last>>

\* the renderer is given a longer prefix: it parses it and walks the tree
RenderPrefix(text) ==
  /\ IsPrefix(prefix, text)
  /\ prefix # text
  /\ prefix' = text
  /\ body' = parse(text)
  /\ element' = renderNode(body', components, <<"root">>)
  /\ UNCHANGED components
  /\ UNCHANGED <<mdcContent, streamedText, isStreaming, isPaused, indexRef,
                 intervalRef, timers, view, activeTab, parsed, error,
                 pending, ticks, last>>

\* React commits the handler's updates
Flush ==
  /\ view' = Rendered(mdcContent', streamedText', isStreaming', isPaused')
  /\ RendererCommit(activeTab', streamedText')

Step(op) ==
  last' = [op |-> op, prev |-> last.op, isStreaming |-> isStreaming,
           isPaused |-> isPaused, indexRef |-> indexRef,
           timer |-> intervalRef # NoTimer]

ClickStart == start /\ UNCHANGED <<activeTab, walkVars>> /\ Flush /\ Step("start")
ClickPause == pause /\ UNCHANGED <<activeTab, walkVars>> /\ Flush /\ Step("pause")
ClickResume == resume /\ UNCHANGED <<activeTab, walkVars>> /\ Flush /\ Step("resume")
ClickReset == reset /\ UNCHANGED <<activeTab, walkVars>> /\ Flush /\ Step("reset")
ClickComplete == complete /\ UNCHANGED <<activeTab, walkVars>> /\ Flush /\ Step("complete")

\* the textarea's onChange without the reset(): setMdcContent(value) alone
SetContent_NoReset(value) ==
  /\ value # mdcContent
  /\ mdcContent' = value
  /\ UNCHANGED <<streamedText, isStreaming, isPaused, indexRef, intervalRef,
                 timers, ticks, activeTab, walkVars>>
  /\ Flush
  /\ Step("edit")

\* the textarea's onChange: setMdcContent(value); reset()
SetContent(value) ==
  /\ value # mdcContent
  /\ mdcContent' = value
  /\ stop
  /\ streamedText' = <<>>
  /\ indexRef' = 0
  /\ UNCHANGED <<ticks, activeTab, walkVars>>
  /\ Flush
  /\ Step("edit")

\* handleTabChange(tab): reset(); setActiveTab(tab)
HandleTabChange(tab) ==
  /\ reset
  /\ activeTab' = tab
  /\ UNCHANGED walkVars
  /\ Flush
  /\ Step("tab")

\* a live interval fires
Tick(id) ==
  /\ id \in DOMAIN timers
  /\ IntervalCallback(id)
  /\ UNCHANGED <<view, activeTab, parsed, error, pending, walkVars>>
  /\ Step("tick")

\* the render React scheduled for an interval callback's updates
Render ==
  /\ view # Rendered(mdcContent, streamedText, isStreaming, isPaused)
  /\ view' = Rendered(mdcContent, streamedText, isStreaming, isPaused)
  /\ RendererCommit(activeTab, streamedText)
  /\ UNCHANGED <<mdcContent, streamedText, isStreaming, isPaused, indexRef,
                 intervalRef, timers, ticks, activeTab, walkVars>>
  /\ Step("render")

\* a parseMDC call of the mounted renderer settles
Settle(content) ==
  /\ content \in pending
  /\ ParseSettles(content)
  /\ UNCHANGED <<mdcContent, streamedText, isStreaming, isPaused, indexRef,
                 intervalRef, timers, view, activeTab, ticks, walkVars>>
  /\ Step("settle")

InitOn(docs, tab) ==
  /\ mdcContent \in docs
  /\ activeTab = tab
  /\ parsed = Null
  /\ error = Null
  /\ pending = {}
  /\ streamedText = <<>>
  /\ isStreaming = FALSE
  /\ isPaused = FALSE
  /\ indexRef = 0
  /\ intervalRef = NoTimer
  /\ timers = <<>>
  /\ view = Rendered(mdcContent, <<>>, FALSE, FALSE)
  /\ ticks = 0
  /\ last = [op |-> "init", prev |-> "init", isStreaming |-> FALSE,
             isPaused |-> FALSE, indexRef |-> 0, timer |-> FALSE]

\* the trees and registries the walk starts from
InitWalkOn(asts, registries) ==
  /\ body \in asts
  /\ components \in registries
  /\ element = NotRendered
  /\ prefix = <<>>

Init == InitOn(Docs, "mdc") /\ InitWalkOn({parse(<<>>)}, {mdcComponents})

Next ==
  \/ ClickStart
  \/ ClickPause
  \/ ClickResume
  \/ ClickReset
  \/ ClickComplete
  \/ \E value \in Docs : SetContent(value)
  \/ \E tab \in Tabs : HandleTabChange(tab)
  \/ \E id \in TimerIds : Tick(id)
  \/ Render
  \/ \E content \in Docs : Settle(content)

Spec == Init /\ [][Next]_vars

\* One run: start() once on a document, then only the timer and the renders.
\* The run is on the Streamdown tab, where MDCRenderer is not mounted.
InitRun ==
  InitOn(RunDocs, "streamdown") /\ InitWalkOn({parse(<<>>)}, {mdcComponents})

StartRun == last.op = "init" /\ ClickStart

NextRun ==
  \/ StartRun
  \/ \E id \in TimerIds : Tick(id)
  \/ Render

SpecRun == InitRun /\ [][NextRun]_vars

\* One run under the timer's schedule: a live interval keeps firing.
SpecRunFair == SpecRun /\ WF_vars(\E id \in TimerIds : Tick(id))

\* The engine driven through the App's controls alone: a button is there to
\* be clicked when the last render showed it.
StartShown == ~view.isStreaming /\ ~view.isPaused
PauseShown == view.isStreaming /\ ~view.isPaused
ResumeShown == view.isPaused
CompleteResetShown ==
  view.isStreaming \/ view.isPaused \/ view.streamedText # <<>>

NextUI ==
  \/ StartShown /\ ClickStart
  \/ PauseShown /\ ClickPause
  \/ ResumeShown /\ ClickResume
  \/ CompleteResetShown /\ ClickReset
  \/ CompleteResetShown /\ ClickComplete
  \/ \E value \in Docs : SetContent(value)
  \/ \E tab \in Tabs : HandleTabChange(tab)
  \/ \E id \in TimerIds : Tick(id)
  \/ Render
  \/ \E content \in Docs : Settle(content)

SpecUI == Init /\ [][NextUI]_vars

\* The tree walk alone: renderNode on every drawn tree and registry, and on
\* the trees of the growing prefixes of a document.  The engine stands still.
InitWalk == InitOn({<<>>}, "mdc") /\ InitWalkOn(Asts, Registries)

NextWalk ==
  \/ RenderBody
  \/ \E text \in WalkDocs : RenderPrefix(text)

SpecWalk == InitWalk /\ [][NextWalk]_vars

\* ------------------------------------------------------ engine states
\* The hook has no state field: the App reads the state off the two flags
\* (the Start, Pause and Resume buttons), and Idle and Complete differ in
\* the revealed length.
Streaming == isStreaming /\ ~isPaused
Paused == isPaused
Idle == ~isStreaming /\ ~isPaused /\ indexRef = 0
Complete == ~isStreaming /\ ~isPaused /\ indexRef = Len(mdcContent)

LiveTimers == DOMAIN timers

\* the engine state the last step was taken in
WasStreaming == last.isStreaming /\ ~last.isPaused
WasPaused == last.isPaused
WasStopped == ~last.isStreaming /\ ~last.isPaused

\* ------------------------------------------------------------- claims

\* C1: start() in any engine state and at any revealed length cancels the
\* existing timer, sets the revealed length to 0 and the revealed text to
\* empty, and leaves the engine Streaming with exactly one live timer, the
\* one intervalRef holds.
C1_StartRestarts ==
  last.op = "start" =>
    /\ indexRef = 0
    /\ streamedText = <<>>
    /\ Streaming
    /\ intervalRef # NoTimer
    /\ LiveTimers = {intervalRef}
    /\ timers[intervalRef] = mdcContent

\* start() was called while Streaming, part of the text revealed
C1_Witness ==
  /\ last.op = "start"
  /\ WasStreaming
  /\ last.timer
  /\ last.indexRef > 0

\* C2: pause() while Streaming cancels the timer and leaves the engine
\* Paused at the same revealed length; and no step that starts and ends in
\* Paused changes the revealed length or the progress.
C2_PauseFreezes ==
  [][/\ (last'.op = "pause" /\ Streaming) =>
          /\ Paused'
          /\ indexRef' = indexRef
          /\ streamedText' = streamedText
          /\ intervalRef' = NoTimer
          /\ LiveTimers' = {}
     /\ (Paused /\ Paused') =>
          /\ indexRef' = indexRef
          /\ streamedText' = streamedText
          /\ progress' = progress]_vars

\* pause() was called while Streaming in the middle of the document
C2_Witness ==
  /\ last.op = "pause"
  /\ WasStreaming
  /\ last.timer
  /\ Paused
  /\ 0 < indexRef
  /\ indexRef < Len(mdcContent)

\* C3: pause() while Idle or Complete changes nothing: the flags, the
\* revealed length, the revealed text and the timer handle are as before.
C3_PauseNoOpWhenStopped ==
  [][(last'.op = "pause" /\ (Idle \/ Complete)) =>
        UNCHANGED <<isStreaming, isPaused, indexRef, streamedText,
                    intervalRef, timers>>]_vars

\* C4: resume() while Paused restarts the ticking from the current revealed
\* length and leaves the engine Streaming; resume() in any other state
\* changes nothing and creates no timer.
C4_ResumeOnlyFromPaused ==
  [][last'.op = "resume" =>
       IF Paused
       THEN /\ Streaming'
            /\ indexRef' = indexRef
            /\ streamedText' = streamedText
            /\ intervalRef' # NoTimer
            /\ LiveTimers' = {intervalRef'}
       ELSE UNCHANGED <<isStreaming, isPaused, indexRef, streamedText,
                        intervalRef, timers>>]_vars

\* C5: reset() in any engine state cancels the timer, sets the revealed
\* length to 0 and the revealed text to empty, and leaves the engine Idle:
\* not streaming, not paused, no live timer.
C5_ResetToIdle ==
  last.op = "reset" =>
    /\ indexRef = 0
    /\ streamedText = <<>>
    /\ Idle
    /\ intervalRef = NoTimer
    /\ LiveTimers = {}

\* reset() was called while Streaming, part of the text revealed
C5_Witness ==
  /\ last.op = "reset"
  /\ WasStreaming
  /\ last.timer
  /\ last.indexRef > 0

\* C6: complete() in any engine state cancels the timer, sets the revealed
\* length to the length of the document and the revealed text to the whole
\* document, and leaves the engine Complete: not streaming, not paused, no
\* live timer.
C6_CompleteToEnd ==
  last.op = "complete" =>
    /\ indexRef = Len(mdcContent)
    /\ streamedText = mdcContent
    /\ Complete
    /\ intervalRef = NoTimer
    /\ LiveTimers = {}

\* complete() was called while Streaming, before the end of the document
C6_Witness ==
  /\ last.op = "complete"
  /\ WasStreaming
  /\ last.timer
  /\ last.indexRef < Len(mdcContent)

\* C7: on a document with content, the revealed length equals the length
\* of the document exactly when the engine is Complete, and progress is 100
\* exactly when the engine is Complete.
C7_FullIffComplete ==
  Len(mdcContent) > 0 =>
    /\ (indexRef = Len(mdcContent)) <=> Complete
    /\ (progress = 100) <=> Complete

\* C8: at most one timer is live, and none is live unless the engine is
\* Streaming.
C8_OneTimerOnlyWhileStreaming ==
  /\ Cardinality(LiveTimers) <= 1
  /\ ~Streaming => LiveTimers = {}

\* C9: a pause() right after a pause() changes nothing, and a complete()
\* in Complete leaves the flags, the revealed length and the revealed text
\* as they are.
C9_Idempotent ==
  [][/\ (last.op = "pause" /\ last'.op = "pause") =>
          UNCHANGED <<isStreaming, isPaused, indexRef, streamedText,
                      intervalRef, timers>>
     /\ (Complete /\ last'.op = "complete") =>
          UNCHANGED <<isStreaming, isPaused, indexRef, streamedText>>]_vars

\* pause() was called twice in a row, the first time while Streaming
C9_Witness ==
  /\ last.op = "pause"
  /\ last.prev = "pause"
  /\ last.isStreaming
  /\ last.isPaused
  /\ 0 < indexRef
  /\ indexRef < Len(mdcContent)

\* C10: after start() on a document of n >= 1 characters and no other
\* call, the engine is Complete after at least ceil(n/3) and at most n
\* ticks: it is not Complete before ceil(n/3) ticks, and it is once n ticks
\* have run.
RunStarted == last.op # "init"
RunOver == ~isStreaming /\ intervalRef = NoTimer /\ LiveTimers = {}

C10_CompleteWithinLenTicks ==
  (RunStarted /\ Len(mdcContent) > 0) =>
    /\ RunOver => ticks >= CeilDiv(Len(mdcContent), 3)
    /\ ticks >= Len(mdcContent) => RunOver

\* C11: a change of the document resets the engine: after it the engine is
\* Idle at revealed length 0 with no live timer; and in every state the
\* revealed text is the prefix of the current document of the revealed
\* length, and the text on screen is a prefix of the current document.
C11_EditResets ==
  /\ last.op = "edit" =>
       /\ Idle
       /\ streamedText = <<>>
       /\ intervalRef = NoTimer
       /\ LiveTimers = {}
  /\ indexRef <= Len(mdcContent)
  /\ streamedText = SubSeq(mdcContent, 1, indexRef)
  /\ IsPrefix(view.streamedText, mdcContent)

\* the document was changed while Streaming, part of the old one revealed
C11_Witness ==
  /\ last.op = "edit"
  /\ WasStreaming
  /\ last.timer
  /\ last.indexRef > 0

\* C17: a tick taken while Streaming before the end of the document adds 1,
\* 2 or 3 to the revealed length, clamped to the length of the document; the
\* revealed length is always within 0..len(document); and no step from
\* Streaming to Streaming other than a start() lowers it.
C17_TickStepAndBounds ==
  [][/\ (last'.op = "tick" /\ Streaming /\ indexRef < Len(mdcContent)) =>
          indexRef' \in {Min(indexRef + c, Len(mdcContent)) : c \in 1..3}
     /\ indexRef' \in 0..Len(mdcContent')
     /\ (Streaming /\ Streaming' /\ last'.op # "start") =>
          indexRef' >= indexRef]_vars

\* a tick reached the end of the document from less than 3 characters away
C17_Witness ==
  /\ last.op = "tick"
  /\ WasStreaming
  /\ last.indexRef < indexRef
  /\ indexRef - last.indexRef < 3
  /\ indexRef = Len(mdcContent)

\* C18: a tick taken while Streaming before the end of the document leaves
\* the engine Complete with no live timer when it reaches the end of the
\* document, and Streaming when it does not.
C18_CompletesInReachingTick ==
  [][(last'.op = "tick" /\ Streaming /\ indexRef < Len(mdcContent)) =>
       IF indexRef' = Len(mdcContent)
       THEN Complete' /\ intervalRef' = NoTimer /\ LiveTimers' = {}
       ELSE Streaming']_vars

\* C19: with the interval firing as long as it is live and no call after
\* start(), a Streaming engine becomes Complete, at the full revealed length
\* and with no live timer, for every length of document.
C19_EventuallyComplete ==
  Streaming ~> (Complete /\ intervalRef = NoTimer /\ LiveTimers = {})

\* a run on a document with content has ended
C19_Witness ==
  /\ RunStarted
  /\ RunOver
  /\ Complete
  /\ Len(mdcContent) > 0
  /\ ticks > 1

\* C12: while the renderer stays mounted (one run), a displayed tree is
\* only ever replaced by the tree of a longer prefix, whatever the order in
\* which the parse calls settle.
C12_TreesGrow ==
  [][(parsed # Null /\ parsed' # Null /\ parsed' # parsed) =>
        Len(parsed') > Len(parsed)]_vars

\* C13: a parse that fails leaves the error and no tree, and starts no new
\* call; a parse that succeeds leaves its tree and no error; a renderer just
\* mounted shows the loading placeholder; no other step changes what is
\* shown, but for the return to the placeholder of an unmounted or remounted
\* renderer; and an error is never held together with a tree.
C13_ParseOutcomeShown ==
  [][/\ ~(error' # Null /\ parsed' # Null)
     /\ last'.op = "settle" =>
          \E content \in pending :
            /\ pending' = pending \ {content}
            /\ IF ParseFails(content)
               THEN Display' = "error" /\ error' = content /\ parsed' = Null
               ELSE Display' = "tree" /\ parsed' = content /\ error' = Null
     /\ last'.op # "settle" =>
          \/ parsed' = parsed /\ error' = error
          \/ Display' = "loading"
     /\ (Mounted' /\ ~Mounted) => Display' = "loading" /\ pending' # {}]_vars

\* a parse failed while a tree was displayed
C13_Witness ==
  /\ last.op = "settle"
  /\ Mounted
  /\ Display = "error"
  /\ last.prev = "settle"

\* --------------------------------------------------- the walk's claims
WalkDone == element # NotRendered

\* C14: a component node whose lower-cased name is a key of the registry
\* yields that handler's element with the node's attributes as props and its
\* rendered children; any other component node yields the fallback
\* placeholder labelled with the name as written, around its rendered
\* children.
C14_ComponentDispatch ==
  (WalkDone /\ body.type \in ComponentTypes) =>
    LET lowered == IF Has(body, "name") THEN ToLowerCase(body.name) ELSE ""
    IN IF lowered \in DOMAIN components
       THEN /\ element.kind = "element"
            /\ element.type = components[lowered]
            /\ element.key = <<"root">>
            /\ element.props = (IF Has(body, "attributes")
                                THEN body.attributes ELSE EmptyObject)
            /\ element.children = OptMapChildren(body, components, <<"root">>)
       ELSE element = Fallback(body, components, <<"root">>)

\* C15: when the renderer is given a longer prefix of the document, every
\* key of the tree rendered for the shorter prefix is a key of the tree
\* rendered for the longer one.
C15_KeysStable ==
  [][(prefix # <<>> /\ prefix' # prefix) =>
       KeySet(element) \subseteq KeySet(element')]_vars

\* C16: for a node of any type, known or not, with each optional field
\* present or absent, renderNode returns an element, a string, an array,
\* null or undefined and never raises; undefined only for a text node
\* without a value, null only for a node of unknown type without children.
C16_WalkNeverRaises ==
  /\ element.kind \in {"none", "element", "string", "array", "null",
                       "undefined"}
  /\ element.kind = "undefined" => body.type = "text" /\ ~Has(body, "value")
  /\ element.kind = "null" =>
       body.type \in {"root", "html"} /\ ~Has(body, "children")

\* a heading with no optional field at all was rendered
C16_Witness ==
  /\ WalkDone
  /\ body.type = "heading"
  /\ DOMAIN body = {"type"}
  /\ element.kind = "element"

\* "root-i1-...-ik" for the child-index path <<i1, ..., ik>>
RECURSIVE PathKey(_)
PathKey(path) ==
  IF path = <<>> THEN <<"root">>
  ELSE PathKey(SubSeq(path, 1, Len(path) - 1))
       \o <<"-", ToString(path[Len(path)])>>

\* the path keys of all the nodes of a tree
RECURSIVE NodeKeys(_, _)
NodeKeys(node, path) ==
  {PathKey(path)} \cup
  (IF Has(node, "children")
   THEN UNION {NodeKeys(node.children[i], Append(path, i - 1)) :
                 i \in 1..Len(node.children)}
   ELSE {})

\* the types rendered as one keyed element, and those whose children the
\* walk does not visit
KeyedTypes == NodeTypes \ {"text", "root", "html"}
LeafTypes == {"text", "code", "inlineCode", "thematicBreak"}

\* the path keys of the visited nodes of a keyed type
RECURSIVE VisitedKeys(_, _)
VisitedKeys(node, path) ==
  (IF node.type \in KeyedTypes THEN {PathKey(path)} ELSE {}) \cup
  (IF Has(node, "children") /\ node.type \notin LeafTypes
   THEN UNION {VisitedKeys(node.children[i], Append(path, i - 1)) :
                 i \in 1..Len(node.children)}
   ELSE {})

NoKeyTwice(result) == Len(KeySeq(result)) = Cardinality(KeySet(result))

ClampDepth(d) == IF d < 1 THEN 1 ELSE IF d > 6 THEN 6 ELSE d

\* C21: a heading node of any integer depth is rendered with the tag and
\* the size class of its depth clamped to 1..6.
C21_HeadingTier ==
  (WalkDone /\ body.type = "heading" /\ Has(body, "depth")) =>
    LET tier == ClampDepth(body.depth)
    IN /\ element.kind = "element"
       /\ element.type = <<"h1", "h2", "h3", "h4", "h5", "h6">>[tier]
       /\ element.props = ClassName(sizes[tier])

\* the text a node and its descendants carry, in source order
RECURSIVE TextCarried(_)
RECURSIVE TextCarriedBy(_)
TextCarriedBy(nodes) ==
  IF nodes = <<>> THEN <<>>
  ELSE TextCarried(Head(nodes)) \o TextCarriedBy(Tail(nodes))

TextCarried(node) ==
  (IF Has(node, "value") THEN node.value ELSE <<>>)
  \o (IF Has(node, "children") THEN TextCarriedBy(node.children) ELSE <<>>)

\* the text of an output, in document order
RECURSIVE TextShown(_)
RECURSIVE TextShownBy(_)
TextShownBy(items) ==
  IF items = <<>> THEN <<>>
  ELSE TextShown(Head(items)) \o TextShownBy(Tail(items))

TextShown(result) ==
  IF result.kind = "string" THEN result.value
  ELSE IF result.kind = "element" THEN TextShown(result.children)
  ELSE IF result.kind = "array" THEN TextShownBy(result.items)
  ELSE <<>>

UnknownTypes == {"root", "html"}

\* C22: a node of a type the walk does not know is rendered as the
\* renderings of its children, in order and unwrapped (nothing when it has
\* none), and the text the node and its descendants carry is the text of
\* the output.
C22_Passthrough ==
  (WalkDone /\ body.type \in UnknownTypes) =>
    /\ element = (IF Has(body, "children")
                  THEN MapChildren(body, components, <<"root">>)
                  ELSE NullNode)
    /\ TextShown(element) = TextCarried(body)

\* C23: with the engine driven through the App's controls alone, in every
\* state paused implies streaming, pause() was not called in Idle or
\* Complete, resume() was not called outside Paused, and a timer is live
\* exactly when the engine is streaming and not paused.
C23_UIGating ==
  Len(mdcContent) > 0 =>
    /\ isPaused => isStreaming
    /\ last.op = "pause" => WasStreaming
    /\ last.op = "resume" => WasPaused
    /\ (LiveTimers # {}) <=> (isStreaming /\ ~isPaused)

\* the revealed prefix is at rest and on screen, and no parse call is open
AtRest ==
  /\ Mounted
  /\ Paused \/ Complete
  /\ view.streamedText = streamedText
  /\ pending = {}

\* C24: once the revealed prefix has stopped changing and every parse call
\* has settled, the renderer shows the outcome of parsing that prefix: its
\* tree, or its error.
C24_ShowsCurrentPrefix ==
  AtRest =>
    IF ParseFails(streamedText)
    THEN error = streamedText /\ parsed = Null
    ELSE parsed = streamedText /\ error = Null

====
